---- MODULE Spec2Model ----
(***************************************************************************)
(* Model of scripts/generate_fake_data.py of TEMdb_client: the walk of the *)
(* specimen -> block -> cutting session -> section -> ROI -> imaging       *)
(* session -> acquisition -> tile hierarchy that generate_data performs    *)
(* through the client, the tiling arithmetic of create_tiles, the summary  *)
(* that generate_data prints and the client scope of main.                 *)
(*                                                                         *)
(* One action is one client call (one await) together with the local      *)
(* control flow that follows it, or one loop header of generate_data.      *)
(* Randomised payload fields that no foreign key, count or index depends   *)
(* on (jitter, focus score, matcher records, timestamps) are left out of   *)
(* the call records.                                                       *)
(***************************************************************************)
EXTENDS Integers, Sequences, FiniteSets, TLC

(***************************************************************************)
(* Python float arithmetic (IEEE-754 binary64, round to nearest, ties to   *)
(* even) on non-negative values, as used by create_tiles and the summary.  *)
(* Natural numbers wider than the checker's integers are little-endian     *)
(* sequences of limbs in base 2^15 without leading zero limbs.             *)
(***************************************************************************)
Base == 2^15

MantBits == 53

Max(a, b) == IF a >= b THEN a ELSE b

\* Op applied to the value of v, with v evaluated once
Bind(v, Op(_)) == CHOOSE r \in {Op(x) : x \in {v}} : TRUE

RECURSIVE BN(_)
BN(n) == IF n = 0 THEN <<>> ELSE <<n % Base>> \o BN(n \div Base)

RECURSIVE BNNorm(_)
BNNorm(a) ==
    IF a = <<>> THEN a
    ELSE IF a[Len(a)] = 0 THEN BNNorm(SubSeq(a, 1, Len(a) - 1)) ELSE a

Limb(a, i) == IF i <= Len(a) THEN a[i] ELSE 0

RECURSIVE BNAddFrom(_, _, _, _)
BNAddFrom(a, b, i, c) ==
    IF i > Max(Len(a), Len(b)) THEN (IF c = 0 THEN <<>> ELSE <<c>>)
    ELSE Bind(Limb(a, i) + Limb(b, i) + c,
              LAMBDA s : <<s % Base>> \o BNAddFrom(a, b, i + 1, s \div Base))

BNAdd(a, b) == Bind(<<a, b>>, LAMBDA p : BNAddFrom(p[1], p[2], 1, 0))

RECURSIVE BNSubFrom(_, _, _, _)
BNSubFrom(a, b, i, br) ==
    IF i > Len(a) THEN <<>>
    ELSE Bind(Limb(a, i) - Limb(b, i) - br,
              LAMBDA d : IF d < 0 THEN <<d + Base>> \o BNSubFrom(a, b, i + 1, 1)
                                  ELSE <<d>> \o BNSubFrom(a, b, i + 1, 0))

\* a - b for a >= b
BNSub(a, b) == Bind(<<a, b>>, LAMBDA p : BNNorm(BNSubFrom(p[1], p[2], 1, 0)))

RECURSIVE BNCmpFrom(_, _, _)
BNCmpFrom(a, b, i) ==
    IF i = 0 THEN 0
    ELSE IF a[i] < b[i] THEN -1
    ELSE IF a[i] > b[i] THEN 1
    ELSE BNCmpFrom(a, b, i - 1)

\* -1, 0, 1 as a < b, a = b, a > b
BNCmp(a, b) ==
    Bind(<<a, b>>, LAMBDA p :
        IF Len(p[1]) < Len(p[2]) THEN -1
        ELSE IF Len(p[1]) > Len(p[2]) THEN 1
        ELSE BNCmpFrom(p[1], p[2], Len(p[1])))

RECURSIVE BNMulSmallFrom(_, _, _, _)
BNMulSmallFrom(a, k, i, c) ==
    IF i > Len(a) THEN BN(c)
    ELSE Bind(a[i] * k + c,
              LAMBDA s : <<s % Base>> \o BNMulSmallFrom(a, k, i + 1, s \div Base))

\* a * k for 0 <= k < Base
BNMulSmall(a, k) ==
    Bind(<<a, k>>, LAMBDA p :
        IF p[2] = 0 THEN <<>> ELSE BNMulSmallFrom(p[1], p[2], 1, 0))

\* a * Base^n
BNShiftLimbs(a, n) ==
    Bind(a, LAMBDA v : IF v = <<>> THEN v ELSE [i \in 1..n |-> 0] \o v)

RECURSIVE BNMulFrom(_, _, _)
BNMulFrom(a, b, i) ==
    IF i > Len(b) THEN <<>>
    ELSE BNAdd(BNMulSmall(a, b[i]), BNShiftLimbs(BNMulFrom(a, b, i + 1), 1))

BNMul(a, b) == Bind(<<a, b>>, LAMBDA p : BNMulFrom(p[1], p[2], 1))

\* a * 2^k
BNShl(a, k) ==
    Bind(k, LAMBDA n : BNShiftLimbs(BNMulSmall(a, 2^(n % 15)), n \div 15))

RECURSIVE BitLenSmall(_)
BitLenSmall(n) == IF n = 0 THEN 0 ELSE 1 + BitLenSmall(n \div 2)

BNBitLen(a) ==
    Bind(a, LAMBDA v :
        IF v = <<>> THEN 0 ELSE 15 * (Len(v) - 1) + BitLenSmall(v[Len(v)]))

RECURSIVE DigitSearch(_, _, _, _)
\* the largest d = acc + (a number below 2^(bit+1)) with d * c <= rem
DigitSearch(rem, c, bit, acc) ==
    IF bit < 0 THEN acc
    ELSE IF BNCmp(BNMulSmall(c, acc + 2^bit), rem) <= 0
         THEN DigitSearch(rem, c, bit - 1, acc + 2^bit)
         ELSE DigitSearch(rem, c, bit - 1, acc)

RECURSIVE BNDivStep(_, _, _, _)
BNDivStep(rem, b, i, q) ==
    IF i < 0 THEN <<BNNorm(q), rem>>
    ELSE Bind(<<rem, BNShiftLimbs(b, i), q>>, LAMBDA p :
           Bind(DigitSearch(p[1], p[2], 14, 0), LAMBDA d :
             BNDivStep(BNSub(p[1], BNMulSmall(p[2], d)), b, i - 1,
                       <<d>> \o p[3])))

\* <<a div b, a mod b>> for b > 0, by long division in base 2^15
BNDivMod(a, b) ==
    Bind(<<a, b>>, LAMBDA p :
        BNDivStep(p[1], p[2], Len(p[1]) - Len(p[2]), <<>>))

RECURSIVE BNToIntFrom(_, _)
BNToIntFrom(a, i) ==
    IF i > Len(a) THEN 0 ELSE a[i] + Base * BNToIntFrom(a, i + 1)

BNToInt(a) == Bind(a, LAMBDA v : BNToIntFrom(v, 1))

BNOdd(a) == Bind(a, LAMBDA v : v # <<>> /\ v[1] % 2 = 1)

(***************************************************************************)
(* A float is [m, e] with value m * 2^e and 2^52 <= m < 2^53, or m = 0.    *)
(***************************************************************************)
FZero == [m |-> <<>>, e |-> 0]

\* <<quotient, remainder, divisor>> of num * 2^k by den, k possibly negative
ScaledDivMod(num, den, k) ==
    IF k >= 0
    THEN Bind(BNDivMod(BNShl(num, k), den), LAMBDA qr : <<qr[1], qr[2], den>>)
    ELSE Bind(BNShl(den, -k), LAMBDA d :
           Bind(BNDivMod(num, d), LAMBDA qr : <<qr[1], qr[2], d>>))

\* the quotient q of ScaledDivMod rounded to nearest, ties to even, as the
\* float of exponent -k
RoundScaled(sd, k) ==
    Bind(BNCmp(BNMulSmall(sd[2], 2), sd[3]), LAMBDA c :
      Bind(IF c > 0 \/ (c = 0 /\ BNOdd(sd[1])) THEN BNAdd(sd[1], BN(1))
                                              ELSE sd[1], LAMBDA m :
        IF BNBitLen(m) > MantBits
        THEN [m |-> BNDivMod(m, BN(2))[1], e |-> 1 - k]
        ELSE [m |-> m, e |-> -k]))

\* the float nearest to num / den, ties to even
RoundRat(num, den) ==
    Bind(<<num, den>>, LAMBDA p :
      IF p[1] = <<>> THEN FZero
      ELSE Bind(MantBits - (BNBitLen(p[1]) - BNBitLen(p[2])), LAMBDA k0 :
             Bind(ScaledDivMod(p[1], p[2], k0), LAMBDA sd0 :
               IF BNBitLen(sd0[1]) > MantBits
               THEN Bind(ScaledDivMod(p[1], p[2], k0 - 1), LAMBDA sd1 :
                      RoundScaled(sd1, k0 - 1))
               ELSE RoundScaled(sd0, k0))))

FNum(x) == IF x.e >= 0 THEN BNShl(x.m, x.e) ELSE x.m

FDen(x) == IF x.e >= 0 THEN BN(1) ELSE BNShl(BN(1), -x.e)

\* <<numerator of x, denominator of x, numerator of y, denominator of y>>
Fractions(x, y) ==
    Bind(<<x, y>>, LAMBDA p : <<FNum(p[1]), FDen(p[1]), FNum(p[2]), FDen(p[2])>>)

FromInt(n) == RoundRat(BN(n), BN(1))

\* x - y for x >= y
FSub(x, y) ==
    Bind(Fractions(x, y), LAMBDA f :
        RoundRat(BNSub(BNMul(f[1], f[4]), BNMul(f[3], f[2])), BNMul(f[2], f[4])))

FMul(x, y) ==
    Bind(Fractions(x, y), LAMBDA f :
        RoundRat(BNMul(f[1], f[3]), BNMul(f[2], f[4])))

\* x / y for y > 0
FDiv(x, y) ==
    Bind(Fractions(x, y), LAMBDA f :
        RoundRat(BNMul(f[1], f[4]), BNMul(f[2], f[3])))

\* int(x): truncation toward zero
FTrunc(x) == Bind(x, LAMBDA v : BNToInt(BNDivMod(FNum(v), FDen(v))[1]))

\* argparse type=float on the decimal text pct/100
ParseOverlap(pct) == RoundRat(BN(pct), BN(100))

\* args.stage_size / (args.tile_size * (1 - args.overlap))
StageOverEffective(stage_size, tile_size, pct) ==
    FDiv(FromInt(stage_size),
         FMul(FromInt(tile_size), FSub(FromInt(1), ParseOverlap(pct))))

(***************************************************************************)
(* Bounds of the model and the argument values it draws.                   *)
(***************************************************************************)
MaxBlocks == 2

MaxCuttingSessions == 2

MaxSections == 3

MaxRoisPerSession == 2

MaxStage == 2

MaxTile == 2

\* ROIs one run creates at most, over all its blocks
MaxRois == 12

\* argparse defaults of the physical parameters
DefaultTileSize == 21512

DefaultOverlapPct == 6

DefaultStageSize == 100000

\* overlaps of the small geometries, as hundredths
OverlapPcts == {DefaultOverlapPct, 25}

\* <<stage_size, tile_size, overlap in hundredths>>
SmallGeoms == (0..MaxStage) \X (1..MaxTile) \X OverlapPcts

\* geometries drawn, like the small ones, with one block, one cutting
\* session, one section and one ROI per imaging session
WideGeoms ==
    { <<DefaultStageSize, DefaultTileSize, DefaultOverlapPct>>,
      <<12, 3, 20>>, <<7, 5, 30>>, <<4, 2, 50>>, <<5, 2, 50>> }

\* <<num_blocks, cutting_sessions_per_block, sections_per_session,
\*   rois_per_imaging_session>>
SmallVolumes ==
    { v \in (0..MaxBlocks) \X (0..MaxCuttingSessions) \X (0..MaxSections)
                \X (0..MaxRoisPerSession) :
        v[1] * v[2] * v[3] <= MaxRois }

\* geometries drawn with every volume: no tile, one tile and a 2 x 2 grid
VolumeGeoms == { <<0, 1, DefaultOverlapPct>>, <<1, 1, 25>>, <<2, 1, 25>> }

\* the two end-to-end scenarios of the specification
ScenarioVolumes == { <<1, 1, 5, 5>>, <<1, 1, 7, 5>> }

UnitVolume == <<1, 1, 1, 1>>

MkArgs(v, g) ==
    [ stage_size |-> g[1], tile_size |-> g[2], overlap_pct |-> g[3],
      num_blocks |-> v[1], cutting_sessions_per_block |-> v[2],
      sections_per_session |-> v[3], rois_per_imaging_session |-> v[4] ]

ArgSets ==
    { MkArgs(v, g) : v \in SmallVolumes, g \in VolumeGeoms }
        \cup { MkArgs(v, <<1, 1, 25>>) : v \in ScenarioVolumes }
        \cup { MkArgs(UnitVolume, g) : g \in SmallGeoms \cup WideGeoms }

\* random.randint(1000, 9999) of create_specimen, two representatives
SpecimenNums == {1000, 9999}

(***************************************************************************)
(* The tiling arithmetic, evaluated once per geometry.                     *)
(***************************************************************************)
Geoms == SmallGeoms \cup WideGeoms \cup VolumeGeoms

\* for every geometry g, <<g, the quotient
\*   args.stage_size / (args.tile_size * (1 - args.overlap)) truncated,
\*   its square truncated>>
TilingTable ==
    { Bind(StageOverEffective(g[1], g[2], g[3]),
           LAMBDA q : <<g, FTrunc(q), FTrunc(FMul(q, q))>>) : g \in Geoms }

Tiling(g) == CHOOSE row \in TilingTable : row[1] = g

GeomOf(a) == <<a.stage_size, a.tile_size, a.overlap_pct>>

(***************************************************************************)
(* Formatting of identifiers.                                              *)
(***************************************************************************)
\* f"{n:03d}"
Pad3(n) ==
    IF n < 10 THEN "00" \o ToString(n)
    ELSE IF n < 100 THEN "0" \o ToString(n) ELSE ToString(n)

\* f"{n:05d}"
Pad5(n) ==
    IF n < 10 THEN "0000" \o ToString(n)
    ELSE IF n < 100 THEN "000" \o ToString(n)
    ELSE IF n < 1000 THEN "00" \o ToString(n)
    ELSE IF n < 10000 THEN "0" \o ToString(n) ELSE ToString(n)

RECURSIVE NumDigits(_)
NumDigits(n) == IF n < 10 THEN 1 ELSE 1 + NumDigits(n \div 10)

\* int(f"{j+1}{k+1:03d}"): the decimal digits of j+1 followed by those of
\* k+1 padded to at least three
RoiIdOf(j, k) == (j + 1) * 10^Max(3, NumDigits(k + 1)) + (k + 1)

(***************************************************************************)
(* Records sent to the client.                                             *)
(***************************************************************************)
NoRecord == [_id |-> 0]

SpecimenData(r) == [specimen_id |-> "SPEC" \o ToString(r)]

BlockData(specimen, i) ==
    [ block_id |-> "BLK_" \o specimen.specimen_id \o "_" \o Pad3(i + 1),
      specimen_id |-> specimen.specimen_id ]

MediaIdOf(block, session_number) ==
    "TAPE" \o block.block_id \o ToString(session_number)

CuttingSessionData(block, session_number) ==
    [ cutting_session_id |-> "CUT" \o block.block_id \o ToString(session_number),
      block_id |-> block.block_id,
      media_id |-> MediaIdOf(block, session_number) ]

SectionData(cutting_session, section_number, media_id) ==
    [ section_id |->
          "SEC" \o cutting_session.cutting_session_id \o Pad3(section_number),
      section_number |-> section_number,
      cutting_session_id |-> cutting_session.cutting_session_id,
      media_id |-> media_id,
      relative_position |-> section_number ]

RoiData(section, roi_id, block, specimen) ==
    [ roi_id |-> roi_id,
      section_number |-> section.section_number,
      specimen_id |-> specimen._id,
      block_id |-> block._id ]

\* now is the reading of the clock that stands for the timestamp and the
\* random suffix of the session id
ImagingSessionData(specimen, block, media_id, session_number, now) ==
    [ session_id |->
          "IMS_" \o specimen.specimen_id \o "_" \o Pad3(session_number)
              \o "_" \o ToString(now),
      specimen_id |-> specimen.specimen_id,
      block_id |-> block.block_id,
      media_id |-> media_id ]

AddRoisData(imaging_session, roi) ==
    [ session_id |-> imaging_session.session_id, roi_id |-> roi.roi_id ]

AcquisitionData(imaging_session, roi) ==
    [ acquisition_id |->
          "ACQ" \o imaging_session.session_id \o ToString(roi.roi_id),
      roi_id |-> roi.roi_id,
      imaging_session_id |-> imaging_session.session_id,
      montage_id |->
          "MONTAGE" \o imaging_session.session_id \o ToString(roi.roi_id) ]

\* tiles laid out column by column
TileDataColumnMajor(acquisition, k, tiles_per_side) ==
    [ tile_id |-> "TILE" \o acquisition.acquisition_id \o Pad5(k + 1),
      acquisition_id |-> acquisition.acquisition_id,
      raster_position |->
          [row |-> k % tiles_per_side, col |-> k \div tiles_per_side],
      raster_index |-> k + 1 ]

TileData(acquisition, k, tiles_per_side) ==
    [ tile_id |-> "TILE" \o acquisition.acquisition_id \o Pad5(k + 1),
      acquisition_id |-> acquisition.acquisition_id,
      raster_position |->
          [row |-> k \div tiles_per_side, col |-> k % tiles_per_side],
      raster_index |-> k + 1 ]

(***************************************************************************)
(* State.                                                                  *)
(*   args     the parsed command line                                      *)
(*   pc       the position of main / generate_data / create_tiles          *)
(*   conn     the client scope of main: "unopened", "open", "closed"       *)
(*   opens, closes   how often the scope was entered and left              *)
(*   log      every client call issued so far, in order, with its outcome  *)
(*   gd       the local variables of generate_data                         *)
(*   ct       the local variables of create_tiles                          *)
(*   printed  the final summary, once printed                              *)
(*   caught   the exception that ended generate_data, "none" if none       *)
(***************************************************************************)
VARIABLES args, pc, conn, opens, closes, log, gd, ct, printed, caught

vars == <<args, pc, conn, opens, closes, log, gd, ct, printed, caught>>

\* generate_data with a single except clause, for TEMdbClientError only
HandledWithoutNotFound == {"TEMdbClientError"}

\* the two exceptions generate_data handles, and one it does not
Handled == {"TEMdbClientError", "NotFoundError"}

Errors == {"TEMdbClientError", "NotFoundError", "OtherError"}

NoSummary == [printed |-> FALSE]

\* the record a create call returns: the record sent, echoed, with the
\* server-assigned _id
Returned(data, serial) == [f \in DOMAIN data \cup {"_id"} |->
                              IF f = "_id" THEN serial ELSE data[f]]

\* a foreign key: the value of key of the local record rec, sent as field
Ref(kind, key, field, rec) ==
    [kind |-> kind, key |-> key, field |-> field, val |-> rec[key],
     from |-> rec._id]

\* one client call: what was sent, the records its foreign keys were read
\* from, the block and media it was made for, its outcome and the state of
\* the client scope when it was issued
Entry(op, data, refs, b, media, out) ==
    [ op |-> op, data |-> data, refs |-> refs, b |-> b, media |-> media,
      out |-> out, conn |-> conn,
      ret |-> IF out = "ok" THEN Returned(data, Len(log) + 1) ELSE NoRecord ]

\* the call raises: the two client errors are caught at the top of
\* generate_data and logged, anything else propagates out of it
Raises(op, data, refs, b, media) ==
    \E out \in Errors :
        /\ log' = Append(log, Entry(op, data, refs, b, media, out))
        /\ caught' = out
        /\ pc' = IF out \in Handled THEN "returned" ELSE "raised"
        /\ UNCHANGED <<args, conn, opens, closes, printed>>

\* the call returns its record and generate_data goes on at nextpc
Returns(op, data, refs, b, media, nextpc) ==
    /\ log' = Append(log, Entry(op, data, refs, b, media, "ok"))
    /\ pc' = nextpc
    /\ UNCHANGED <<args, conn, opens, closes, printed, caught>>

LastRet == log'[Len(log')].ret

InitGd ==
    [ specimen |-> NoRecord, blocks |-> <<>>, bi |-> 0, block |-> NoRecord,
      session_counters |-> <<>>, block_rois |-> <<>>, j |-> 0,
      cutting_session |-> NoRecord, media_id |-> "", k |-> 0,
      section |-> NoRecord, rois_by_media |-> <<>>, mi |-> 0,
      num_sessions |-> 0, i |-> 0, imaging_session |-> NoRecord,
      session_rois |-> <<>>, ri |-> 0, acquisition |-> NoRecord,
      total_imaging_sessions |-> 0, total_rois |-> 0 ]

InitCt == [tiles_per_side |-> 0, total_tiles |-> 0, k |-> 0, tiles |-> 0]

Init ==
    /\ args \in ArgSets
    /\ pc = "main"
    /\ conn = "unopened"
    /\ opens = 0
    /\ closes = 0
    /\ log = <<>>
    /\ gd = InitGd
    /\ ct = InitCt
    /\ printed = NoSummary
    /\ caught = "none"

(***************************************************************************)
(* main                                                                    *)
(***************************************************************************)
\* async with create_client(...) as client: the scope is entered
MainEnter ==
    /\ pc = "main"
    /\ conn' = "open"
    /\ opens' = opens + 1
    /\ pc' = "create_specimen"
    /\ UNCHANGED <<args, closes, log, gd, ct, printed, caught>>

\* main closing the client by hand after generate_data, without a scope:
\* an exception passes the close by
MainExitCloseOnReturn ==
    /\ pc \in {"returned", "raised"}
    /\ conn' = IF pc = "returned" THEN "closed" ELSE conn
    /\ closes' = IF pc = "returned" THEN closes + 1 ELSE closes
    /\ pc' = IF pc = "returned" THEN "exited" ELSE "crashed"
    /\ UNCHANGED <<args, opens, log, gd, ct, printed, caught>>

\* the scope is left, whether generate_data returned or raised
MainExit ==
    /\ pc \in {"returned", "raised"}
    /\ conn' = "closed"
    /\ closes' = closes + 1
    /\ pc' = IF pc = "returned" THEN "exited" ELSE "crashed"
    /\ UNCHANGED <<args, opens, log, gd, ct, printed, caught>>

(***************************************************************************)
(* generate_data: specimen and blocks                                      *)
(***************************************************************************)
CreateSpecimen ==
    /\ pc = "create_specimen"
    /\ \E r \in SpecimenNums :
        LET data == SpecimenData(r) IN
        \/ /\ Returns("specimen.create", data, {}, 0, "", "create_blocks")
           /\ gd' = [gd EXCEPT !.specimen = LastRet]
           /\ UNCHANGED ct
        \/ /\ Raises("specimen.create", data, {}, 0, "")
           /\ UNCHANGED <<gd, ct>>

CreateBlock ==
    /\ pc = "create_blocks"
    /\ Len(gd.blocks) < args.num_blocks
    /\ LET data == BlockData(gd.specimen, Len(gd.blocks))
           refs == {Ref("specimen", "specimen_id", "specimen_id", gd.specimen)}
       IN  \/ /\ Returns("block.create", data, refs, 0, "", "create_blocks")
              /\ gd' = [gd EXCEPT !.blocks = Append(@, LastRet)]
              /\ UNCHANGED ct
           \/ /\ Raises("block.create", data, refs, 0, "")
              /\ UNCHANGED <<gd, ct>>

\* create_blocks with its return inside the loop: it returns after the
\* first block
CreateBlocksReturnInLoop ==
    /\ pc = "create_blocks"
    /\ Len(gd.blocks) >= (IF args.num_blocks > 0 THEN 1 ELSE 0)
    /\ gd' = [gd EXCEPT !.total_imaging_sessions = 0, !.total_rois = 0,
                        !.bi = 1]
    /\ pc' = "for_block"
    /\ UNCHANGED <<args, conn, opens, closes, log, ct, printed, caught>>

\* create_blocks returns; the counters are reset and the loop over the
\* blocks starts
CreateBlocksReturn ==
    /\ pc = "create_blocks"
    /\ Len(gd.blocks) >= args.num_blocks
    /\ gd' = [gd EXCEPT !.total_imaging_sessions = 0, !.total_rois = 0,
                        !.bi = 1]
    /\ pc' = "for_block"
    /\ UNCHANGED <<args, conn, opens, closes, log, ct, printed, caught>>

\* for block in blocks
ForBlock ==
    /\ pc = "for_block"
    /\ IF gd.bi <= Len(gd.blocks)
       THEN /\ gd' = [gd EXCEPT !.block = gd.blocks[gd.bi],
                                !.session_counters = <<>>,
                                !.block_rois = <<>>, !.j = 0]
            /\ pc' = "for_cutting"
       ELSE /\ gd' = gd
            /\ pc' = "summary"
    /\ UNCHANGED <<args, conn, opens, closes, log, ct, printed, caught>>

(***************************************************************************)
(* generate_data: cutting sessions, sections and ROIs of one block         *)
(***************************************************************************)
\* create_cutting_session returning the record it sent instead of the
\* record the client returned
CreateCuttingSessionKeepsRequest ==
    /\ pc = "for_cutting"
    /\ gd.j < args.cutting_sessions_per_block
    /\ LET data  == CuttingSessionData(gd.block, gd.j + 1)
           media == MediaIdOf(gd.block, gd.j + 1)
           refs  == {Ref("block", "block_id", "block_id", gd.block)}
       IN  \/ /\ Returns("cutting_session.create", data, refs, gd.bi, media,
                         "for_section")
              /\ gd' = [gd EXCEPT
                          !.cutting_session = Returned(data, 0),
                          !.media_id = media,
                          !.session_counters =
                              IF media \in DOMAIN @ THEN @ ELSE (media :> 0) @@ @,
                          !.k = 0]
              /\ UNCHANGED ct
           \/ /\ Raises("cutting_session.create", data, refs, gd.bi, media)
              /\ UNCHANGED <<gd, ct>>

CreateCuttingSession ==
    /\ pc = "for_cutting"
    /\ gd.j < args.cutting_sessions_per_block
    /\ LET data  == CuttingSessionData(gd.block, gd.j + 1)
           media == MediaIdOf(gd.block, gd.j + 1)
           refs  == {Ref("block", "block_id", "block_id", gd.block)}
       IN  \/ /\ Returns("cutting_session.create", data, refs, gd.bi, media,
                         "for_section")
              /\ gd' = [gd EXCEPT
                          !.cutting_session = LastRet,
                          !.media_id = media,
                          !.session_counters =
                              IF media \in DOMAIN @ THEN @ ELSE (media :> 0) @@ @,
                          !.k = 0]
              /\ UNCHANGED ct
           \/ /\ Raises("cutting_session.create", data, refs, gd.bi, media)
              /\ UNCHANGED <<gd, ct>>

CreateSection ==
    /\ pc = "for_section"
    /\ gd.k < args.sections_per_session
    /\ LET data == SectionData(gd.cutting_session, gd.k + 1, gd.media_id)
           refs == {Ref("cutting_session", "cutting_session_id",
                        "cutting_session_id", gd.cutting_session)}
       IN  \/ /\ Returns("section.create", data, refs, gd.bi, gd.media_id,
                         "create_roi")
              /\ gd' = [gd EXCEPT !.section = LastRet]
              /\ UNCHANGED ct
           \/ /\ Raises("section.create", data, refs, gd.bi, gd.media_id)
              /\ UNCHANGED <<gd, ct>>

CreateRoi ==
    /\ pc = "create_roi"
    /\ LET data == RoiData(gd.section, RoiIdOf(gd.j, gd.k), gd.block, gd.specimen)
           refs == { Ref("section", "section_number", "section_number", gd.section),
                     Ref("block", "_id", "block_id", gd.block),
                     Ref("specimen", "_id", "specimen_id", gd.specimen) }
       IN  \/ /\ Returns("roi.create", data, refs, gd.bi, gd.media_id,
                         "for_section")
              /\ gd' = [gd EXCEPT
                          !.block_rois = Append(@, <<LastRet, gd.media_id>>),
                          !.k = @ + 1]
              /\ UNCHANGED ct
           \/ /\ Raises("roi.create", data, refs, gd.bi, gd.media_id)
              /\ UNCHANGED <<gd, ct>>

\* the sections of one cutting session are done
EndSections ==
    /\ pc = "for_section"
    /\ gd.k >= args.sections_per_session
    /\ gd' = [gd EXCEPT !.j = @ + 1]
    /\ pc' = "for_cutting"
    /\ UNCHANGED <<args, conn, opens, closes, log, ct, printed, caught>>

\* rois_by_media: the ROIs of block_rois under their media id, the media
\* ids in the order of their first ROI
\* the positions in block_rois at which a media id occurs for the first
\* time: the keys of rois_by_media, which keeps its insertion order
FirstOfMedia(block_rois) ==
    { n \in 1..Len(block_rois) :
        \A m \in 1..(n - 1) : block_rois[m][2] # block_rois[n][2] }

\* the ROIs of block_rois paired with media, in the order of block_rois
RoisOfMedia(block_rois, media) ==
    LET at == {n \in 1..Len(block_rois) : block_rois[n][2] = media}
        nth(q) == CHOOSE n \in at : Cardinality({m \in at : m <= n}) = q
    IN  [q \in 1..Cardinality(at) |-> block_rois[nth(q)][1]]

GroupByMedia(block_rois) ==
    LET first == FirstOfMedia(block_rois)
        nth(q) == CHOOSE n \in first : Cardinality({m \in first : m <= n}) = q
    IN  [q \in 1..Cardinality(first) |->
            [ media_id |-> block_rois[nth(q)][2],
              rois |-> RoisOfMedia(block_rois, block_rois[nth(q)][2]) ]]

\* the cutting sessions of the block are done: its ROIs are grouped
GroupRois ==
    /\ pc = "for_cutting"
    /\ gd.j >= args.cutting_sessions_per_block
    /\ gd' = [gd EXCEPT !.rois_by_media = GroupByMedia(gd.block_rois),
                        !.mi = 1]
    /\ pc' = "for_media"
    /\ UNCHANGED <<args, conn, opens, closes, log, ct, printed, caught>>

(***************************************************************************)
(* generate_data: imaging sessions, acquisitions and tiles of one block    *)
(***************************************************************************)
\* the loop over the media groups with the number of sessions rounded up,
\* so that the remainder gets a session of its own
ForMediaRoundingUp ==
    /\ pc = "for_media"
    /\ IF gd.mi > Len(gd.rois_by_media)
       THEN /\ gd' = [gd EXCEPT !.total_rois = @ + Len(gd.block_rois),
                                !.bi = @ + 1]
            /\ pc' = "for_block"
            /\ caught' = caught
       ELSE IF args.rois_per_imaging_session = 0
       THEN /\ gd' = [gd EXCEPT !.media_id = gd.rois_by_media[gd.mi].media_id]
            /\ pc' = "raised"
            /\ caught' = "ZeroDivisionError"
       ELSE /\ gd' = [gd EXCEPT
                        !.media_id = gd.rois_by_media[gd.mi].media_id,
                        !.num_sessions =
                            (Len(gd.rois_by_media[gd.mi].rois)
                                + args.rois_per_imaging_session - 1)
                                \div args.rois_per_imaging_session,
                        !.i = 0]
            /\ pc' = "for_session"
            /\ caught' = caught
    /\ UNCHANGED <<args, conn, opens, closes, log, ct, printed>>

\* for media_id, media_rois in rois_by_media.items()
ForMedia ==
    /\ pc = "for_media"
    /\ IF gd.mi > Len(gd.rois_by_media)
       THEN /\ gd' = [gd EXCEPT !.total_rois = @ + Len(gd.block_rois),
                                !.bi = @ + 1]
            /\ pc' = "for_block"
            /\ caught' = caught
       ELSE IF args.rois_per_imaging_session = 0
       THEN /\ gd' = [gd EXCEPT !.media_id = gd.rois_by_media[gd.mi].media_id]
            /\ pc' = "raised"
            /\ caught' = "ZeroDivisionError"
       ELSE /\ gd' = [gd EXCEPT
                        !.media_id = gd.rois_by_media[gd.mi].media_id,
                        !.num_sessions =
                            Len(gd.rois_by_media[gd.mi].rois)
                                \div args.rois_per_imaging_session,
                        !.i = 0]
            /\ pc' = "for_session"
            /\ caught' = caught
    /\ UNCHANGED <<args, conn, opens, closes, log, ct, printed>>

\* a slice that takes the element at end_idx too
SliceInclusive(seq, start_idx, end_idx) ==
    SubSeq(seq, start_idx + 1,
           IF end_idx + 1 < Len(seq) THEN end_idx + 1 ELSE Len(seq))

\* media_rois[start_idx:end_idx]
Slice(seq, start_idx, end_idx) ==
    SubSeq(seq, start_idx + 1, IF end_idx < Len(seq) THEN end_idx ELSE Len(seq))

CreateImagingSession ==
    /\ pc = "for_session"
    /\ gd.i < gd.num_sessions
    /\ LET counters == [gd.session_counters EXCEPT ![gd.media_id] = @ + 1]
           data == ImagingSessionData(gd.specimen, gd.block, gd.media_id,
                                      counters[gd.media_id], Len(log))
           refs == { Ref("specimen", "specimen_id", "specimen_id", gd.specimen),
                     Ref("block", "block_id", "block_id", gd.block) }
           start_idx == gd.i * args.rois_per_imaging_session
           end_idx   == start_idx + args.rois_per_imaging_session
       IN  \/ /\ Returns("imaging_session.create", data, refs, gd.bi,
                         gd.media_id, "for_roi")
              /\ gd' = [gd EXCEPT
                          !.session_counters = counters,
                          !.imaging_session = LastRet,
                          !.session_rois =
                              Slice(gd.rois_by_media[gd.mi].rois,
                                    start_idx, end_idx),
                          !.ri = 1]
              /\ UNCHANGED ct
           \/ /\ Raises("imaging_session.create", data, refs, gd.bi, gd.media_id)
              /\ gd' = [gd EXCEPT !.session_counters = counters]
              /\ UNCHANGED ct

\* the imaging sessions of one media id are done
EndSessions ==
    /\ pc = "for_session"
    /\ gd.i >= gd.num_sessions
    /\ gd' = [gd EXCEPT !.mi = @ + 1]
    /\ pc' = "for_media"
    /\ UNCHANGED <<args, conn, opens, closes, log, ct, printed, caught>>

\* client.imaging_session.add_rois(session_id, roi_id) for the next ROI of
\* the batch
AddRois ==
    /\ pc = "for_roi"
    /\ gd.ri <= Len(gd.session_rois)
    /\ LET roi  == gd.session_rois[gd.ri]
           data == AddRoisData(gd.imaging_session, roi)
           refs == { Ref("imaging_session", "session_id", "session_id",
                         gd.imaging_session),
                     Ref("roi", "roi_id", "roi_id", roi) }
       IN  \/ /\ Returns("imaging_session.add_rois", data, refs, gd.bi,
                         gd.media_id, "create_acquisition")
              /\ UNCHANGED <<gd, ct>>
           \/ /\ Raises("imaging_session.add_rois", data, refs, gd.bi,
                        gd.media_id)
              /\ UNCHANGED <<gd, ct>>

\* the batch is done
EndSessionRois ==
    /\ pc = "for_roi"
    /\ gd.ri > Len(gd.session_rois)
    /\ gd' = [gd EXCEPT !.total_imaging_sessions = @ + 1, !.i = @ + 1]
    /\ pc' = "for_session"
    /\ UNCHANGED <<args, conn, opens, closes, log, ct, printed, caught>>

CreateAcquisition ==
    /\ pc = "create_acquisition"
    /\ LET roi  == gd.session_rois[gd.ri]
           data == AcquisitionData(gd.imaging_session, roi)
           refs == { Ref("imaging_session", "session_id", "imaging_session_id",
                         gd.imaging_session),
                     Ref("roi", "roi_id", "roi_id", roi) }
       IN  \/ /\ Returns("acquisition.create", data, refs, gd.bi, gd.media_id,
                         "create_tiles")
              /\ gd' = [gd EXCEPT !.acquisition = LastRet]
              /\ UNCHANGED ct
           \/ /\ Raises("acquisition.create", data, refs, gd.bi, gd.media_id)
              /\ UNCHANGED <<gd, ct>>

(***************************************************************************)
(* create_tiles                                                            *)
(***************************************************************************)
\* int(args.stage_size / (args.tile_size * (1 - args.overlap)))
TilesPerSide(a) == Tiling(GeomOf(a))[2]

\* the head of create_tiles: the grid is sized
EnterCreateTiles ==
    /\ pc = "create_tiles"
    /\ ct' = [ tiles_per_side |-> TilesPerSide(args),
               total_tiles |-> TilesPerSide(args) * TilesPerSide(args),
               k |-> 0, tiles |-> 0 ]
    /\ pc' = "add_tile"
    /\ UNCHANGED <<args, conn, opens, closes, log, gd, printed, caught>>

AddTile ==
    /\ pc = "add_tile"
    /\ ct.k < ct.total_tiles
    /\ LET data == TileData(gd.acquisition, ct.k, ct.tiles_per_side)
           refs == {Ref("acquisition", "acquisition_id", "acquisition_id",
                        gd.acquisition)}
       IN  \/ /\ Returns("acquisition.add_tile", data, refs, gd.bi,
                         gd.media_id, "add_tile")
              /\ ct' = [ct EXCEPT !.k = @ + 1, !.tiles = @ + 1]
              /\ UNCHANGED gd
           \/ /\ Raises("acquisition.add_tile", data, refs, gd.bi, gd.media_id)
              /\ UNCHANGED <<gd, ct>>

\* create_tiles returns and the batch goes on with its next ROI
CreateTilesReturn ==
    /\ pc = "add_tile"
    /\ ct.k >= ct.total_tiles
    /\ gd' = [gd EXCEPT !.ri = @ + 1]
    /\ pc' = "for_roi"
    /\ UNCHANGED <<args, conn, opens, closes, log, ct, printed, caught>>

(***************************************************************************)
(* generate_data: the summary                                              *)
(***************************************************************************)
\* int((args.stage_size / (args.tile_size * (1 - args.overlap))) ** 2)
TilesPerAcquisition(a) == Tiling(GeomOf(a))[3]

PrintSummary ==
    /\ pc = "summary"
    /\ printed' =
         [ printed |-> TRUE,
           blocks |-> Len(gd.blocks),
           rois |-> gd.total_rois,
           imaging_sessions |-> gd.total_imaging_sessions,
           tiles_per_acquisition |-> TilesPerAcquisition(args),
           total_tiles |->
               gd.total_imaging_sessions * args.rois_per_imaging_session
                   * TilesPerAcquisition(args) ]
    /\ pc' = "returned"
    /\ UNCHANGED <<args, conn, opens, closes, log, gd, ct, caught>>

Next ==
    \/ MainEnter
    \/ CreateSpecimen
    \/ CreateBlock
    \/ CreateBlocksReturn
    \/ ForBlock
    \/ CreateCuttingSession
    \/ CreateSection
    \/ CreateRoi
    \/ EndSections
    \/ GroupRois
    \/ ForMedia
    \/ CreateImagingSession
    \/ EndSessions
    \/ AddRois
    \/ EndSessionRois
    \/ CreateAcquisition
    \/ EnterCreateTiles
    \/ AddTile
    \/ CreateTilesReturn
    \/ PrintSummary
    \/ MainExit

Spec == Init /\ [][Next]_vars

(***************************************************************************)
(* Vocabulary of the properties.                                           *)
(***************************************************************************)
Calls(op) == {n \in 1..Len(log) : log[n].op = op}

Count(op) == Cardinality(Calls(op))

\* the q-th smallest element of the set S of numbers
NthOf(S, q) == CHOOSE n \in S : Cardinality({m \in S : m <= n}) = q

\* the server-assigned _id of the record a call read the foreign key of
\* the given kind from
FromOf(e, kind) == (CHOOSE r \in e.refs : r.kind = kind).from

\* the run of main is over and no call failed
CompletedCleanly == pc = "exited" /\ caught = "none"

\* the kinds of parent each call refers to
ParentsOf(op) ==
    CASE op = "specimen.create" -> {}
      [] op = "block.create" -> {"specimen"}
      [] op = "cutting_session.create" -> {"block"}
      [] op = "section.create" -> {"cutting_session"}
      [] op = "roi.create" -> {"section", "block", "specimen"}
      [] op = "imaging_session.create" -> {"specimen", "block"}
      [] op = "imaging_session.add_rois" -> {"imaging_session", "roi"}
      [] op = "acquisition.create" -> {"imaging_session", "roi"}
      [] op = "acquisition.add_tile" -> {"acquisition"}

\* the foreign key r of call number n was read from the record that the
\* earlier, completed create call number r.from returned
FromEarlierCreate(n, r) ==
    /\ log[n].data[r.field] = r.val
    /\ r.from \in 1..(n - 1)
    /\ log[r.from].op = r.kind \o ".create"
    /\ log[r.from].out = "ok"
    /\ log[r.from].ret._id = r.from
    /\ log[r.from].ret[r.key] = r.val

\* C1: at every point of every run, each call carries exactly the parent
\* references of its kind, and each of them was taken from a record that
\* an earlier, already completed create call returned.
C1_ParentsReturnedBefore ==
    \A n \in 1..Len(log) :
        /\ {r.kind : r \in log[n].refs} = ParentsOf(log[n].op)
        /\ \A r \in log[n].refs : FromEarlierCreate(n, r)

\* a run was cut short by a failing add_tile, after the whole chain of
\* parents had been created
C1_Witness ==
    /\ pc = "exited"
    /\ Len(log) > 0
    /\ log[Len(log)].op = "acquisition.add_tile"
    /\ log[Len(log)].out = "TEMdbClientError"
    /\ Count("acquisition.add_tile") > 1

\* the create calls of kind op made for block b on the media id media
OfMedia(op, b, media) ==
    {n \in Calls(op) : log[n].b = b /\ log[n].media = media}

\* the calls of kind op whose foreign key of the given kind was read from
\* the record with the server-assigned _id id
Referring(op, kind, id) == {n \in Calls(op) : FromOf(log[n], kind) = id}

\* C2: in a run that completed without error with batch size B >= 1, for
\* every block and media id with R created ROIs: floor(R / B) imaging
\* sessions are created; the i-th is given, by one add_rois call each and
\* in order, the ROIs at positions i*B .. i*B+B-1 of the media group; each
\* of the first floor(R/B)*B ROIs is attached once and gets one
\* acquisition, the last R mod B ROIs are attached to nothing.
C2_RoiBatching ==
    (CompletedCleanly /\ args.rois_per_imaging_session >= 1) =>
        \A c \in Calls("cutting_session.create") :
            LET b    == log[c].b
                B    == args.rois_per_imaging_session
                rois == OfMedia("roi.create", b, log[c].media)
                sess == OfMedia("imaging_session.create", b, log[c].media)
                R    == Cardinality(rois)
            IN  /\ Cardinality(sess) = R \div B
                /\ \A i \in 0..((R \div B) - 1) :
                     LET adds == Referring("imaging_session.add_rois",
                                           "imaging_session", NthOf(sess, i + 1))
                     IN  /\ Cardinality(adds) = B
                         /\ \A q \in 1..B :
                              LET a == log[NthOf(adds, q)]
                                  r == NthOf(rois, i * B + q)
                              IN  /\ FromOf(a, "roi") = r
                                  /\ a.data.roi_id = log[r].data.roi_id
                /\ \A q \in 1..R :
                     LET r == NthOf(rois, q)
                         attached == Referring("imaging_session.add_rois", "roi", r)
                         acquired == Referring("acquisition.create", "roi", r)
                         byValue  == {n \in Calls("imaging_session.add_rois") :
                                         /\ log[n].b = b
                                         /\ log[n].data.roi_id = log[r].data.roi_id}
                     IN  IF q <= (R \div B) * B
                         THEN /\ Cardinality(attached) = 1
                              /\ Cardinality(acquired) = 1
                              /\ byValue = attached
                         ELSE /\ attached = {}
                              /\ acquired = {}
                              /\ byValue = {}

\* a completed run in which a media group had a full batch and a remainder
C2_Witness ==
    /\ CompletedCleanly
    /\ args.rois_per_imaging_session >= 2
    /\ args.sections_per_session > args.rois_per_imaging_session
    /\ args.sections_per_session % args.rois_per_imaging_session # 0
    /\ Count("imaging_session.add_rois") > 0

ClientOps ==
    { "specimen.create", "block.create", "cutting_session.create",
      "section.create", "roi.create", "imaging_session.create",
      "imaging_session.add_rois", "acquisition.create", "acquisition.add_tile" }

\* C3: when a client call raises TEMdbClientError or NotFoundError, it is
\* the last call of the run: every call before it completed, none follows
\* it, it is not repeated, no call other than create/add is ever made, the
\* summary is not printed and generate_data returns without raising.
C3_ClientErrorEndsRun ==
    \A n \in 1..Len(log) :
        /\ log[n].op \in ClientOps
        /\ log[n].out \in {"TEMdbClientError", "NotFoundError"} =>
             /\ n = Len(log)
             /\ \A m \in 1..(n - 1) :
                    /\ log[m].out = "ok"
                    /\ <<log[m].op, log[m].data>> # <<log[n].op, log[n].data>>
             /\ printed = NoSummary
             /\ caught = log[n].out
             /\ pc \in {"returned", "exited"}

\* a run ended by a not-found error in the middle of the walk
C3_Witness ==
    /\ pc = "exited"
    /\ caught = "NotFoundError"
    /\ Len(log) > 4
    /\ log[Len(log)].op = "imaging_session.add_rois"
    /\ printed = NoSummary

\* C4: the client scope is entered once and left once; every call is
\* issued while it is open; a run only stops after the scope was left,
\* whether generate_data returned, caught a client error or raised.
C4_ClientScope ==
    /\ opens <= 1
    /\ closes <= 1
    /\ \A n \in 1..Len(log) : log[n].conn = "open"
    /\ conn = (IF closes = 1 THEN "closed" ELSE IF opens = 1 THEN "open"
               ELSE "unopened")
    /\ pc \in {"returned", "raised"} => conn = "open"
    /\ pc \in {"exited", "crashed"} => (opens = 1 /\ closes = 1)
    /\ (~ ENABLED Next) => pc \in {"exited", "crashed"}

\* the division by zero left generate_data unhandled and the scope was
\* left all the same
C4_Witness ==
    /\ pc = "crashed"
    /\ caught = "ZeroDivisionError"
    /\ closes = 1
    /\ Len(log) > 0

\* C5: a run that completed without error with N blocks, M cutting
\* sessions per block, K sections per session, batch size B >= 1 and W
\* tiles per side made 1 specimen, N blocks, N*M cutting sessions, N*M*K
\* sections and ROIs, N*M*floor(K/B) imaging sessions, N*M*floor(K/B)*B
\* add_rois calls and acquisitions and N*M*floor(K/B)*B*W*W tiles; with
\* N = M = 1, K = 5, B = 5 that is 1 session and 5 acquisitions, with
\* K = 7 it is 7 ROIs, 1 session, 5 acquisitions and 2 ROIs left out.
C5_EndToEndCounts ==
    (CompletedCleanly /\ args.rois_per_imaging_session >= 1) =>
        LET N == args.num_blocks
            M == args.cutting_sessions_per_block
            K == args.sections_per_session
            B == args.rois_per_imaging_session
            W == TilesPerSide(args)
            attachedRois ==
                {FromOf(log[n], "roi") : n \in Calls("imaging_session.add_rois")}
        IN  /\ Count("specimen.create") = 1
            /\ Count("block.create") = N
            /\ Count("cutting_session.create") = N * M
            /\ Count("section.create") = N * M * K
            /\ Count("roi.create") = N * M * K
            /\ Count("imaging_session.create") = N * M * (K \div B)
            /\ Count("imaging_session.add_rois") = N * M * (K \div B) * B
            /\ Count("acquisition.create") = N * M * (K \div B) * B
            /\ Count("acquisition.add_tile") = N * M * (K \div B) * B * W * W
            /\ (N = 1 /\ M = 1 /\ K = 5 /\ B = 5) =>
                   /\ Count("imaging_session.create") = 1
                   /\ Count("acquisition.create") = 5
            /\ (N = 1 /\ M = 1 /\ K = 7 /\ B = 5) =>
                   /\ Count("roi.create") = 7
                   /\ Count("imaging_session.create") = 1
                   /\ Count("acquisition.create") = 5
                   /\ Cardinality(Calls("roi.create") \ attachedRois) = 2

\* the scenario with 7 sections and batches of 5 completed
C5_Witness ==
    /\ CompletedCleanly
    /\ args.sections_per_session = 7
    /\ args.rois_per_imaging_session = 5
    /\ Count("acquisition.add_tile") > 0

\* create_tiles has returned for the acquisition created by call number a
TilesDone(a) ==
    \/ \E m \in (a + 1)..Len(log) : log[m].op # "acquisition.add_tile"
    \/ caught = "none" /\ pc \notin {"create_tiles", "add_tile"}

\* C6: for every acquisition and a grid of width W = tiles_per_side, the
\* n-th add_tile call has row (n-1) div W, col (n-1) mod W, both below W,
\* and raster_index n = row*W + col + 1; no position and no index occurs
\* twice; once create_tiles has returned there are exactly W*W calls.
C6_RasterOrder ==
    \A a \in Calls("acquisition.create") :
        LET W     == TilesPerSide(args)
            tiles == Referring("acquisition.add_tile", "acquisition", a)
        IN  /\ Cardinality(tiles) <= W * W
            /\ (log[a].out = "ok" /\ TilesDone(a)) => Cardinality(tiles) = W * W
            /\ Cardinality({log[n].data.raster_position : n \in tiles})
                   = Cardinality(tiles)
            /\ Cardinality({log[n].data.raster_index : n \in tiles})
                   = Cardinality(tiles)
            /\ \A n \in tiles :
                 LET q == Cardinality({m \in tiles : m <= n})
                     d == log[n].data
                 IN  /\ d.raster_position.row = (q - 1) \div W
                     /\ d.raster_position.col = (q - 1) % W
                     /\ d.raster_position.row \in 0..(W - 1)
                     /\ d.raster_position.col \in 0..(W - 1)
                     /\ d.raster_index = q
                     /\ d.raster_index =
                            d.raster_position.row * W + d.raster_position.col + 1

\* a completed run with a grid of at least two rows and columns
C6_Witness ==
    /\ CompletedCleanly
    /\ TilesPerSide(args) >= 2
    /\ Count("acquisition.add_tile") >= 4
    /\ Count("acquisition.create") >= 2

\* floor(stage_size / (tile_size * (1 - overlap))) in exact arithmetic,
\* overlap being the decimal fraction overlap_pct / 100
ExactTilesPerSide(a) ==
    (a.stage_size * 100) \div (a.tile_size * (100 - a.overlap_pct))

\* C7: the grid create_tiles lays out has floor(stage_size / (tile_size *
\* (1 - overlap))) tiles per side and that number squared tiles, which
\* are the tiles created for the acquisition; the defaults give 4 and 16.
C7_TilesPerSideIsFloor ==
    /\ pc = "add_tile" =>
         /\ ct.tiles_per_side = ExactTilesPerSide(args)
         /\ ct.total_tiles = ExactTilesPerSide(args) * ExactTilesPerSide(args)
    /\ (pc = "for_roi" /\ ct.k > 0) =>
         Cardinality(Referring("acquisition.add_tile", "acquisition",
                               gd.acquisition._id))
             = ExactTilesPerSide(args) * ExactTilesPerSide(args)
    /\ (pc = "add_tile" /\ GeomOf(args) =
            <<DefaultStageSize, DefaultTileSize, DefaultOverlapPct>>) =>
         (ct.tiles_per_side = 4 /\ ct.total_tiles = 16)

\* the phase of generate_data a call belongs to
PhaseOf(op) ==
    IF op = "specimen.create" THEN 0
    ELSE IF op = "block.create" THEN 1
    ELSE IF op \in {"cutting_session.create", "section.create", "roi.create"}
         THEN 2
    ELSE 3

\* C8: all N block create calls precede the first cutting-session create;
\* the calls made for a block come after the calls made for the blocks
\* before it; within a block the cutting-session, section and ROI creates
\* precede the imaging-session, add_rois, acquisition and add_tile calls;
\* within a batch each add_rois is followed at once by the acquisition of
\* the same ROI and session, then by the tiles of that acquisition, and
\* only then by the next add_rois.
C8_CallOrder ==
    /\ \A n \in Calls("cutting_session.create") :
           Cardinality({m \in Calls("block.create") : m < n}) = args.num_blocks
    /\ \A n \in 1..Len(log) :
           (log[n].b = 0) <=> (PhaseOf(log[n].op) <= 1)
    /\ \A n \in 1..(Len(log) - 1) :
         LET e == log[n]
             f == log[n + 1]
         IN  /\ \/ e.b < f.b
                \/ e.b = f.b /\ PhaseOf(e.op) <= PhaseOf(f.op)
             /\ e.op = "imaging_session.add_rois" =>
                    /\ f.op = "acquisition.create"
                    /\ FromOf(f, "roi") = FromOf(e, "roi")
                    /\ FromOf(f, "imaging_session") = FromOf(e, "imaging_session")
             /\ f.op = "acquisition.create" => e.op = "imaging_session.add_rois"
             /\ f.op = "acquisition.add_tile" =>
                    \/ e.op = "acquisition.create"
                           /\ FromOf(f, "acquisition") = n
                    \/ e.op = "acquisition.add_tile"
                           /\ FromOf(f, "acquisition") = FromOf(e, "acquisition")
             /\ f.op = "imaging_session.add_rois" =>
                    \/ e.op = "imaging_session.create"
                           /\ FromOf(f, "imaging_session") = n
                    \/ e.op = "acquisition.add_tile"
                           /\ FromOf(f, "imaging_session") =
                                  FromOf(log[FromOf(e, "acquisition")],
                                         "imaging_session")
                    \/ e.op = "acquisition.create"
                           /\ FromOf(f, "imaging_session") =
                                  FromOf(e, "imaging_session")

\* a completed run over two blocks, each with batches of tiled ROIs
C8_Witness ==
    /\ CompletedCleanly
    /\ args.num_blocks = 2
    /\ args.cutting_sessions_per_block = 2
    /\ args.sections_per_session >= 2
    /\ TilesPerSide(args) >= 1
    /\ \E n \in Calls("acquisition.add_tile") : log[n].b = 2

\* C9: the summary of a run reports what the run did: the printed tiles
\* per acquisition is the number of add_tile calls of each acquisition,
\* the printed total is the number of add_tile calls, and the printed
\* blocks, ROIs and imaging sessions are the numbers of their creates.
C9_SummaryMatchesRun ==
    printed.printed =>
        /\ printed.blocks = Count("block.create")
        /\ printed.rois = Count("roi.create")
        /\ printed.imaging_sessions = Count("imaging_session.create")
        /\ printed.total_tiles = Count("acquisition.add_tile")
        /\ \A a \in Calls("acquisition.create") :
               Cardinality(Referring("acquisition.add_tile", "acquisition", a))
                   = printed.tiles_per_acquisition

\* C10: the roi_id values passed to roi.create in one run are pairwise
\* distinct.
C10_RoiIdsDistinct ==
    \A m, n \in Calls("roi.create") :
        m # n => log[m].data.roi_id # log[n].data.roi_id
====
